---- MODULE Spec2Model ----
(***************************************************************************)
(* Model of the sandcrawler Scraper (src/src/scraper.js): the job queue,   *)
(* the per-job pipeline beforeScraping -> engine.fetch -> afterScraping,   *)
(* the `before` series of run, and the fail/succeed/exit/teardown          *)
(* lifecycle.  One action is one turn of the event loop: a public call, a  *)
(* middleware or engine calling back, or a deferred queue.process.         *)
(*                                                                         *)
(* The queue is an async.queue: push appends the task and defers one       *)
(* q.process with setImmediate; q.process starts the head task when the    *)
(* queue is not paused and a worker is free; when a task is over the       *)
(* worker is released, drain is called if no task waits and no worker is   *)
(* busy, and q.process is called again; resume defers one q.process per    *)
(* worker; kill removes drain and empties the tasks.  async.series and     *)
(* async.applyEachSeries call their functions one at a time and stop at    *)
(* the first error; on an empty list they call back at once.               *)
(*                                                                         *)
(* Middlewares and the engine are taken to call back once, later, with an  *)
(* error or without; middlewares are registered before run, and run is     *)
(* called once.                                                            *)
(***************************************************************************)
EXTENDS Integers, Sequences, FiniteSets, TLC

\* ------------------------------------------------------------- bounds ----
MaxFeeds == 2          \* feeds pushed over the whole life of the scraper
MaxConcurrency == 2    \* largest options.maxConcurrency tried
MaxMiddlewares == 2    \* middlewares registered per hook
MaxScrapers == 2       \* scrapers constructed next to the one that runs

\* ------------------------------------------------------------- values ----
\* null, the absence of an error (and of any event payload)
NoError == << >>
\* Error values are opaque to the scraper.  The error a stage fails with is
\* named after the job and the stage that raised it, so that every failure
\* has its own value.
ErrorOf(j, s) == <<"Error", j, s>>

Hooks == {"before", "beforeScraping", "afterScraping"}

\* null, as the value of this.scriptStack
NoScript == <<"null">>
\* return this
This == <<"this">>
\* throw Error(message)
Thrown(message) == <<"Error", message>>
\* A call of `method` on scraper `self` with `arg`, and what it returned or
\* threw.  The scraper that runs is scraper 0.
Call(self, method, arg, value) ==
  [self |-> self, method |-> method, arg |-> arg, value |-> value]
\* timeouts tried, in milliseconds
Timeouts == {1000, 2000}

VARIABLES
  options,       \* this.options (the maxConcurrency entry; 0 = absent)
  state,         \* this.state
  middlewares,   \* this.middlewares: number of functions registered per hook
  queue,         \* this.queue: tasks, concurrency, workers, paused, drain
  immediates,    \* number of q.process calls deferred with setImmediate
  jobs,          \* every job created by createJob, by order of creation
  beforeSeries,  \* position of run's async.series over middlewares.before
  listeners,     \* TRUE while the observers are attached to the emitter
  trace          \* emitted events and completion callback calls, in order

\* The scraper's configuration surface and the module-level defaults.
VARIABLES
  scriptStack,   \* this.scriptStack
  result,        \* what the last configuration call returned or threw
  defaults,      \* the object loaded from defaults.json, shared by reference
  scrapers       \* the options of every Scraper constructed, by order

running == <<state, middlewares, queue, immediates, jobs, beforeSeries,
             listeners, trace>>
setup == <<scriptStack, result, defaults, scrapers>>

vars == <<options, state, middlewares, queue, immediates, jobs, beforeSeries,
          listeners, trace, scriptStack, result, defaults, scrapers>>

\* ------------------------------------------------------------ helpers ----
\* The mutable world a handler works on, threaded through its calls.
World ==
  [queue |-> queue, immediates |-> immediates, jobs |-> jobs,
   state |-> state, listeners |-> listeners, trace |-> trace]

Commit(w) ==
  /\ queue' = w.queue
  /\ immediates' = w.immediates
  /\ jobs' = w.jobs
  /\ state' = w.state
  /\ listeners' = w.listeners
  /\ trace' = w.trace

\* EventEmitter.emit: the event is published whether or not it is observed.
emit(w, type, job, arg) ==
  [w EXCEPT !.trace = Append(@, [type |-> type, job |-> job, arg |-> arg])]

\* ------------------------------------------------------ job factory ------
\* An argument of a call, with the type types.get and typeof see.
Value(type, value) == [type |-> type, value |-> value]

\* {} -- an object is the set of its <<key, value>> pairs.
EmptyObject == {}

\* feed.url is truthy: present and not "".
HasUrl(o) == "url" \in DOMAIN o /\ o.url # ""

\* feed.timeout is truthy: present and not 0.
HasTimeout(o) == "timeout" \in DOMAIN o /\ o.timeout # 0

\* o.f || {}
OrEmpty(o, f) == IF f \in DOMAIN o THEN o[f] ELSE EmptyObject

\* Mutant: data and params of an object feed are not copied.
createJob_SkeletonOnly(feed) ==
  LET req == [retries |-> 0, data |-> EmptyObject, params |-> EmptyObject]
      job == [original |-> feed, state |-> EmptyObject, res |-> EmptyObject]
  IN  IF feed.type = "string"
      THEN <<"job", job @@ [req |-> req @@ [url |-> feed.value]]>>
      ELSE IF ~HasUrl(feed.value)
      THEN Thrown("sandcrawler.scraper.url(s)/addUrl(s): no url provided.")
      ELSE <<"job", job @@ [req |-> req @@ [url |-> feed.value.url]]>>

\* createJob(feed): the job made from a feed, or the error thrown.  The job's
\* id is a fresh uuid and is left out.
createJob(feed) ==
  LET req == [retries |-> 0, data |-> EmptyObject, params |-> EmptyObject]
      job == [original |-> feed, state |-> EmptyObject, res |-> EmptyObject]
  IN  IF feed.type = "string"
      THEN <<"job", job @@ [req |-> req @@ [url |-> feed.value]]>>
      ELSE IF ~HasUrl(feed.value)
      THEN Thrown("sandcrawler.scraper.url(s)/addUrl(s): no url provided.")
      ELSE LET o == feed.value
               copied == [retries |-> 0,
                          url |-> o.url,
                          data |-> OrEmpty(o, "data"),
                          params |-> OrEmpty(o, "params")]
               timed == IF HasTimeout(o)
                        THEN copied @@ [timeout |-> o.timeout]
                        ELSE copied
           IN  <<"job", job @@ [req |-> timed]>>

\* The job of a valid feed as the queue and the pipeline see it: the retry
\* counter, res.error (unset) and the log, which is the history of the stage
\* functions invoked for the job and of their callbacks.
Task ==
  [req |-> [retries |-> 0],
   res |-> [error |-> NoError],
   log |-> << >>]

\* --------------------------------------------------------- pipeline ------
\* The stage functions a job goes through, in the order of the two nested
\* applyEachSeries: every beforeScraping middleware, scrape, every
\* afterScraping middleware.
beforeScraping == [i \in 1..middlewares.beforeScraping |-> <<"beforeScraping", i>>]
scrape == << <<"scrape", 1>> >>
afterScraping == [i \in 1..middlewares.afterScraping |-> <<"afterScraping", i>>]

\* Mutant: the engine is asked before the beforeScraping middlewares.
Pipeline_FetchFirst == scrape \o beforeScraping \o afterScraping

Pipeline == beforeScraping \o scrape \o afterScraping

IndexOf(s) == CHOOSE i \in 1..Len(Pipeline) : Pipeline[i] = s

Called(job) == {job.log[i].stage : i \in {k \in 1..Len(job.log) : job.log[k].ev = "call"}}
Returned(job) == {job.log[i].stage : i \in {k \in 1..Len(job.log) : job.log[k].ev = "return"}}
Active(job) == Called(job) \ Returned(job)

Done == <<"done">>

\* Mutant: the series goes on after an error.
applyEachSeries_IgnoreError(s, err) ==
  IF IndexOf(s) = Len(Pipeline) THEN Done
  ELSE Pipeline[IndexOf(s) + 1]

\* What async.applyEachSeries does when stage s calls back with err:
\* Done (the final callback is called) or the next stage to invoke.
applyEachSeries(s, err) ==
  IF err # NoError THEN Done
  ELSE IF IndexOf(s) = Len(Pipeline) THEN Done
  ELSE Pipeline[IndexOf(s) + 1]

invoke(w, j, s) ==
  [w EXCEPT !.jobs[j].log = Append(@, [stage |-> s, ev |-> "call", err |-> NoError])]

\* ------------------------------------------------------------ queue ------
\* Mutant: push appends the task and defers no q.process.
queuePush_NoProcess(w) ==
  [w EXCEPT !.jobs = Append(@, Task),
            !.queue.tasks = Append(@, Len(w.jobs) + 1)]

\* queue.push(createJob(item)): the task is appended and a q.process deferred.
queuePush(w) ==
  [w EXCEPT !.jobs = Append(@, Task),
            !.queue.tasks = Append(@, Len(w.jobs) + 1),
            !.immediates = @ + 1]

\* Mutant: pause leaves the queue running.
queuePause_Noop(q) == q

queuePause(q) == [q EXCEPT !.paused = TRUE]

\* Mutant: kill drops the tasks and leaves the drain function installed.
queueKill_KeepDrain(q) == [q EXCEPT !.tasks = << >>]

queueKill(q) == [q EXCEPT !.drain = FALSE, !.tasks = << >>]

queueResume(w) ==
  IF ~w.queue.paused THEN w
  ELSE [w EXCEPT !.queue.paused = FALSE,
                 !.immediates = @ + w.queue.concurrency]

\* Mutant: process starts a task whatever the number of busy workers.
queueProcess_NoLimit(w) ==
  IF ~w.queue.paused /\ w.queue.tasks # << >>
  THEN invoke([w EXCEPT !.queue.tasks = Tail(@), !.queue.workers = @ + 1],
              Head(w.queue.tasks), Pipeline[1])
  ELSE w

\* q.process: a free worker takes the head task and runs the worker function,
\* which invokes the first stage of the pipeline.
queueProcess(w) ==
  IF ~w.queue.paused /\ w.queue.workers < w.queue.concurrency
       /\ w.queue.tasks # << >>
  THEN invoke([w EXCEPT !.queue.tasks = Tail(@), !.queue.workers = @ + 1],
              Head(w.queue.tasks), Pipeline[1])
  ELSE w

\* ---------------------------------------------------------- lifecycle ----
teardown(w) ==
  LET w1 == emit(w, "scraper:teardown", 0, NoError)
      w2 == [w1 EXCEPT !.queue = queueKill(@)]
  IN  [w2 EXCEPT !.listeners = FALSE]

\* Mutant: exit tears down twice.
exit_TeardownTwice(w, status) ==
  LET w1 == emit(w, "scraper:end", 0, status)
      w2 == [w1 EXCEPT !.state.running = FALSE, !.state.fulfilled = TRUE]
  IN  teardown(teardown(w2))

exit(w, status) ==
  LET w1 == emit(w, "scraper:end", 0, status)
      w2 == [w1 EXCEPT !.state.running = FALSE, !.state.fulfilled = TRUE]
  IN  teardown(w2)

\* Mutant: fail exits with the status of a success.
fail_WrongStatus(w, err) == exit(emit(w, "scraper:fail", 0, err), <<"success">>)

fail(w, err) == exit(emit(w, "scraper:fail", 0, err), <<"fail">>)

succeed(w) == exit(emit(w, "scraper:success", 0, NoError), <<"success">>)

\* The caller's completion callback: it is handed err, and may push k feeds.
onComplete(w, err, k) ==
  LET w1 == [w EXCEPT !.trace = Append(@, [type |-> "onComplete", job |-> 0, arg |-> err])]
  IN  IF k = 0 THEN w1 ELSE queuePush(w1)

\* Mutant: drain reports the success and tears down before it calls back.
drain_EventsFirst(w, k) == onComplete(succeed(w), NoError, k)

\* The drain function installed by run.
drain(w, k) == succeed(onComplete(w, NoError, k))

\* Mutant: drain fires as soon as no task is waiting, busy workers or not.
queueNext_DrainOnEmpty(w, k) ==
  LET w1 == [w EXCEPT !.queue.workers = @ - 1]
      w2 == IF w1.queue.drain /\ Len(w1.queue.tasks) = 0
            THEN drain(w1, k) ELSE w1
  IN  queueProcess(w2)

\* Mutant: drain fires as soon as no worker is busy, tasks waiting or not.
queueNext_DrainOnIdle(w, k) ==
  LET w1 == [w EXCEPT !.queue.workers = @ - 1]
      w2 == IF w1.queue.drain /\ w1.queue.workers = 0
            THEN drain(w1, k) ELSE w1
  IN  queueProcess(w2)

\* `next` of async.queue, called by the worker when a job is over.
queueNext(w, k) ==
  LET w1 == [w EXCEPT !.queue.workers = @ - 1]
      w2 == IF w1.queue.drain /\ Len(w1.queue.tasks) + w1.queue.workers = 0
            THEN drain(w1, k) ELSE w1
  IN  queueProcess(w2)

\* Mutant: a failed job empties the queue.
workerCallback_DropOnError(w, j, err, k) ==
  LET w1 == IF err # NoError
            THEN emit([w EXCEPT !.jobs[j].res.error = err, !.queue.tasks = << >>],
                      "job:fail", j, err)
            ELSE emit(w, "job:success", j, NoError)
  IN  queueNext(w1, k)

\* The final callback of the worker's applyEachSeries.
workerCallback(w, j, err, k) ==
  LET w1 == IF err # NoError
            THEN emit([w EXCEPT !.jobs[j].res.error = err], "job:fail", j, err)
            ELSE emit(w, "job:success", j, NoError)
  IN  queueNext(w1, k)

\* Mutant: the queue is resumed after a failure of the `before` series too.
seriesCallback_ResumeAnyway(w, err, k) ==
  LET w1 == IF err # NoError THEN fail(onComplete(w, err, k), err) ELSE w
  IN  queueResume([w1 EXCEPT !.queue.drain = TRUE])

\* The final callback of run's async.series.
seriesCallback(w, err, k) ==
  IF err # NoError
  THEN fail(onComplete(w, err, k), err)
  ELSE queueResume([w EXCEPT !.queue.drain = TRUE])

\* this.options.maxConcurrency || 1
maxConcurrency == IF options.maxConcurrency = 0 THEN 1 ELSE options.maxConcurrency

Room(k) == Len(jobs) + k <= MaxFeeds

\* ---------------------------------------------------------- initial ------
Init ==
  /\ options \in [maxConcurrency : 0..MaxConcurrency]
  /\ state = [fulfilled |-> FALSE, locked |-> FALSE, paused |-> FALSE,
              running |-> FALSE]
  /\ middlewares = [h \in Hooks |-> 0]
  /\ queue = queuePause([tasks |-> << >>,
                         concurrency |-> maxConcurrency,
                         workers |-> 0, paused |-> FALSE, drain |-> FALSE])
  /\ immediates = 0
  /\ jobs = << >>
  /\ beforeSeries = [called |-> FALSE, invoked |-> 0, returned |-> 0,
                     error |-> NoError]
  /\ listeners = TRUE
  /\ trace = << >>
  /\ scriptStack = NoScript
  /\ result = Call(0, "Scraper", << >>, This)
  /\ defaults = [maxConcurrency |-> options.maxConcurrency,
                 timeout |-> CHOOSE t \in Timeouts : \A u \in Timeouts : t <= u]
  /\ scrapers = << >>

\* ---------------------------------------------------------- actions ------
\* before(fn), beforeScraping(fn), afterScraping(fn), while setting up.
Register(hook) ==
  /\ ~beforeSeries.called
  /\ middlewares[hook] < MaxMiddlewares
  /\ middlewares' = [middlewares EXCEPT ![hook] = @ + 1]
  /\ UNCHANGED <<options, state, queue, immediates, jobs, beforeSeries,
                 listeners, trace>>
  /\ UNCHANGED setup

\* scraper.url(feed)
Url ==
  /\ Room(1)
  /\ Commit(queuePush(World))
  /\ UNCHANGED <<options, middlewares, beforeSeries>>
  /\ UNCHANGED setup

\* Mutant: addUrl pushes the feed and emits nothing.
AddUrl_Silent ==
  /\ Room(1)
  /\ Commit(queuePush(World))
  /\ UNCHANGED <<options, middlewares, beforeSeries>>
  /\ UNCHANGED setup

\* scraper.addUrl(feed)
AddUrl ==
  /\ Room(1)
  /\ Commit(emit(queuePush(World), "job:added", 0, NoError))
  /\ UNCHANGED <<options, middlewares, beforeSeries>>
  /\ UNCHANGED setup

\* scraper.run(callback): emits scraper:start and starts the `before` series,
\* which is over at once when no `before` middleware is registered.
Run ==
  /\ ~beforeSeries.called
  /\ LET w == emit(World, "scraper:start", 0, NoError)
     IN  IF middlewares.before = 0
         THEN /\ Commit(seriesCallback(w, NoError, 0))
              /\ beforeSeries' = [beforeSeries EXCEPT !.called = TRUE]
         ELSE /\ Commit(w)
              /\ beforeSeries' = [beforeSeries EXCEPT !.called = TRUE, !.invoked = 1]
  /\ UNCHANGED <<options, middlewares>>
  /\ UNCHANGED setup

\* A `before` middleware calls back.  k feeds are pushed by the completion
\* callback when the series fails.
BeforeCallback(failed, k) ==
  /\ beforeSeries.called
  /\ beforeSeries.invoked > beforeSeries.returned
  /\ Room(k)
  /\ LET err == IF failed THEN ErrorOf(0, <<"before", beforeSeries.invoked>>)
                ELSE NoError
     IN  IF err = NoError /\ beforeSeries.invoked < middlewares.before
         THEN /\ beforeSeries' = [beforeSeries EXCEPT !.returned = @ + 1, !.invoked = @ + 1]
              /\ k = 0
              /\ UNCHANGED <<queue, immediates, jobs, state, listeners, trace>>
         ELSE /\ beforeSeries' = [beforeSeries EXCEPT !.returned = @ + 1, !.error = err]
              /\ err = NoError => k = 0
              /\ Commit(seriesCallback(World, err, k))
  /\ UNCHANGED <<options, middlewares>>
  /\ UNCHANGED setup

\* A deferred q.process runs.
Process ==
  /\ immediates > 0
  /\ Commit(queueProcess([World EXCEPT !.immediates = @ - 1]))
  /\ UNCHANGED <<options, middlewares, beforeSeries>>
  /\ UNCHANGED setup

\* A beforeScraping middleware, the engine or an afterScraping middleware
\* calls back for job j.  k feeds are pushed by the completion callback when
\* this callback is the one that drains the queue.
StageCallback(j, s, failed, k) ==
  /\ j \in 1..Len(jobs)
  /\ s \in Active(jobs[j])
  /\ Room(k)
  /\ LET err == IF failed THEN ErrorOf(j, s) ELSE NoError
         w == [World EXCEPT !.jobs[j].log = Append(@, [stage |-> s, ev |-> "return", err |-> err])]
         nxt == applyEachSeries(s, err)
     IN  IF nxt = Done
         THEN /\ (k = 1) => (w.queue.drain /\ w.queue.workers = 1 /\ w.queue.tasks = << >>)
              /\ Commit(workerCallback(w, j, err, k))
         ELSE /\ k = 0
              /\ Commit(invoke(w, j, nxt))
  /\ UNCHANGED <<options, middlewares, beforeSeries>>
  /\ UNCHANGED setup

Stages ==
  {<<"scrape", 1>>} \cup ({"beforeScraping", "afterScraping"} \X (1..MaxMiddlewares))

Next ==
  \/ \E h \in Hooks : Register(h)
  \/ Url
  \/ AddUrl
  \/ Run
  \/ \E failed \in BOOLEAN, k \in 0..1 : BeforeCallback(failed, k)
  \/ Process
  \/ \E j \in 1..MaxFeeds, s \in Stages, failed \in BOOLEAN, k \in 0..1 :
       StageCallback(j, s, failed, k)

Spec == Init /\ [][Next]_vars

\* Every middleware and the engine eventually call back, and the event loop
\* eventually runs each deferred q.process.  Nothing obliges the caller to
\* register, push or run.
FairSpec ==
  /\ Spec
  /\ WF_vars(Process)
  /\ WF_vars(\E failed \in BOOLEAN, k \in 0..1 : BeforeCallback(failed, k))
  /\ WF_vars(\E j \in 1..MaxFeeds, s \in Stages, failed \in BOOLEAN, k \in 0..1 :
               StageCallback(j, s, failed, k))

\* ============================================================ claims =====
Idx(tr, type) == {i \in 1..Len(tr) : tr[i].type = type}
Emitted(type) == Idx(trace, type) # {}
Outcomes(tr, j) ==
  {i \in 1..Len(tr) : tr[i].type \in {"job:success", "job:fail"} /\ tr[i].job = j}
AnyOutcome(tr) ==
  {i \in 1..Len(tr) : tr[i].type \in {"job:success", "job:fail"}}
Fetching == {j \in 1..Len(jobs) : <<"scrape", 1>> \in Active(jobs[j])}
Failed(job) == job.res.error # NoError

\* C1: under fair scheduling every run eventually invokes its completion
\* callback, zero feeds included.
C1_RunCompletes == beforeSeries.called ~> Emitted("onComplete")

\* C2: the completion callback is invoked at most once, and its error
\* argument is the error of the `before` series (null when no `before`
\* middleware failed, whatever happened to the jobs).
C2_OnCompleteOnce ==
  /\ Cardinality(Idx(trace, "onComplete")) <= 1
  /\ \A i \in Idx(trace, "onComplete") : trace[i].arg = beforeSeries.error

C2_Witness ==
  /\ \E i \in Idx(trace, "onComplete") : trace[i].arg = NoError
  /\ \E j \in 1..Len(jobs) : Failed(jobs[j])
  /\ queue.tasks # << >>

\* C3: when the completion callback fires after a successful `before` series,
\* every feed pushed so far has exactly one outcome event (job:success or
\* job:fail) already emitted, and no job ever has two.
C3_Step ==
  /\ \A j \in 1..Len(jobs') : Cardinality(Outcomes(trace', j)) <= 1
  /\ (Idx(trace', "onComplete") # Idx(trace, "onComplete") /\ beforeSeries'.error = NoError)
       => /\ Len(jobs) >= 1
          /\ \A c \in Idx(trace', "onComplete") :
               /\ \A j \in 1..Len(jobs) :
                    \E i \in Outcomes(trace', j) : i < c
               /\ Cardinality({i \in AnyOutcome(trace') : i < c}) = Len(jobs)

C3_OneOutcomePerFeed == [][C3_Step]_vars

C3_Witness ==
  /\ \E c \in Idx(trace, "onComplete") :
       /\ trace[c].arg = NoError
       /\ Cardinality({i \in AnyOutcome(trace) : i < c}) = 2
  /\ queue.concurrency = 2
  /\ Emitted("job:success") /\ Emitted("job:fail")

\* C4: at most maxConcurrency engine fetches are in flight.
C4_BoundedFetches == Cardinality(Fetching) <= maxConcurrency

C4_Witness ==
  /\ Cardinality(Fetching) = maxConcurrency
  /\ queue.tasks # << >>
  /\ ~queue.paused

\* C5: once a `before` middleware has failed the queue stays paused, no stage
\* of any job is invoked, no job outcome is emitted, scraper:fail is emitted
\* with that error and the completion callback receives that error.
C5_BeforeFailure ==
  beforeSeries.error # NoError =>
    /\ queue.paused
    /\ \A j \in 1..Len(jobs) : jobs[j].log = << >>
    /\ AnyOutcome(trace) = {}
    /\ Cardinality(Idx(trace, "scraper:fail")) = 1
    /\ \A i \in Idx(trace, "scraper:fail") : trace[i].arg = beforeSeries.error
    /\ Cardinality(Idx(trace, "onComplete")) = 1
    /\ \A i \in Idx(trace, "onComplete") : trace[i].arg = beforeSeries.error

C5_Witness ==
  /\ beforeSeries.error # NoError
  /\ Len(jobs) = MaxFeeds
  /\ immediates = 0

\* C6: when a beforeScraping middleware fails for a job, nothing else is
\* invoked for that job (no later beforeScraping middleware, no fetch, no
\* afterScraping middleware) and the job's one event is job:fail with that
\* error.
C6_BeforeScrapingFailure ==
  \A j \in 1..Len(jobs) : \A i \in 1..Len(jobs[j].log) :
    LET e == jobs[j].log[i] IN
    (e.stage[1] = "beforeScraping" /\ e.err # NoError) =>
      /\ i = Len(jobs[j].log)
      /\ \A s \in Called(jobs[j]) : s[1] = "beforeScraping" /\ s[2] <= e.stage[2]
      /\ Cardinality(Outcomes(trace, j)) = 1
      /\ \A t \in Outcomes(trace, j) : trace[t].type = "job:fail" /\ trace[t].arg = e.err

C6_Witness ==
  /\ middlewares.beforeScraping = 2
  /\ \E j \in 1..Len(jobs) :
       /\ Len(jobs[j].log) = 2
       /\ jobs[j].log[2].err = ErrorOf(j, <<"beforeScraping", 1>>)

\* C7: a job-level error is stored on the job's res.error and emitted with
\* job:fail; when scraper:success is emitted every feed pushed so far has had
\* its outcome, scraper:fail is not emitted and the completion callback got
\* no error.
C7_Step ==
  /\ \A j \in 1..Len(jobs') :
       LET log == jobs'[j].log
           errs == {log[i].err : i \in 1..Len(log)} \ {NoError}
       IN  /\ errs = {jobs'[j].res.error} \ {NoError}
           /\ Failed(jobs'[j]) =>
                /\ Cardinality(Outcomes(trace', j)) = 1
                /\ \A t \in Outcomes(trace', j) :
                     trace'[t].type = "job:fail" /\ trace'[t].arg = jobs'[j].res.error
  /\ (Idx(trace', "scraper:success") # Idx(trace, "scraper:success")
        /\ \E j \in 1..Len(jobs') : Failed(jobs'[j]))
       => /\ \A j \in 1..Len(jobs) : Cardinality(Outcomes(trace', j)) = 1
          /\ Idx(trace', "scraper:fail") = {}
          /\ Cardinality(Idx(trace', "scraper:success")) = 1
          /\ \A i \in Idx(trace', "onComplete") : trace'[i].arg = NoError

C7_JobErrorIsolated == [][C7_Step]_vars

C7_Witness ==
  /\ Emitted("scraper:success")
  /\ Len(jobs) >= 2
  /\ Failed(jobs[1])
  /\ \E f \in Outcomes(trace, 1), t \in Outcomes(trace, 2) :
       f < t /\ trace[t].type = "job:success"

\* C8: teardown happens exactly once on either outcome: scraper:teardown is
\* emitted once, the queue is killed, the observers are detached, and from
\* then on state.fulfilled is true and state.running false.
C8_Step ==
  /\ Cardinality(Idx(trace', "scraper:teardown")) <= 1
  /\ (Idx(trace', "scraper:fail") \cup Idx(trace', "scraper:success") # {})
       => /\ Cardinality(Idx(trace', "scraper:teardown")) = 1
          /\ ~listeners'
          /\ ~queue'.drain
  /\ Idx(trace', "scraper:teardown") # Idx(trace, "scraper:teardown")
       => queue'.tasks = << >>
  /\ Idx(trace', "scraper:teardown") # {}
       => state'.fulfilled /\ ~state'.running

C8_TeardownOnce == [][C8_Step]_vars

C8_Witness ==
  /\ Emitted("scraper:teardown")
  /\ Emitted("scraper:success")
  /\ \E j \in 1..Len(jobs) : Active(jobs[j]) # {}

\* C9: the lifecycle events come in the order scraper:start, then one of
\* scraper:fail and scraper:success, then scraper:end with the matching
\* status, then scraper:teardown; no job outcome is emitted before the
\* `before` series has succeeded, nor between scraper:success and
\* scraper:teardown.
IsLifecycle(e) ==
  e.type \in {"scraper:start", "scraper:fail", "scraper:success", "scraper:end",
              "scraper:teardown"}
Lifecycle == SelectSeq(trace, IsLifecycle)
Ev(type, arg) == [type |-> type, job |-> 0, arg |-> arg]
FailOrder ==
  << Ev("scraper:start", NoError), Ev("scraper:fail", beforeSeries.error),
     Ev("scraper:end", <<"fail">>), Ev("scraper:teardown", NoError) >>
SuccessOrder ==
  << Ev("scraper:start", NoError), Ev("scraper:success", NoError),
     Ev("scraper:end", <<"success">>), Ev("scraper:teardown", NoError) >>
IsPrefix(a, b) == Len(a) <= Len(b) /\ \A i \in 1..Len(a) : a[i] = b[i]

ExpectedStages ==
  [i \in 1..(middlewares.beforeScraping + 1 + middlewares.afterScraping) |->
     IF i <= middlewares.beforeScraping THEN <<"beforeScraping", i>>
     ELSE IF i = middlewares.beforeScraping + 1 THEN <<"scrape", 1>>
     ELSE <<"afterScraping", i - middlewares.beforeScraping - 1>>]

C10_StagesInOrder ==
  \A j \in 1..Len(jobs) :
    LET log == jobs[j].log IN
    /\ Len(log) <= 2 * Len(ExpectedStages)
    /\ \A i \in 1..Len(log) :
         IF i % 2 = 1
         THEN log[i] = [stage |-> ExpectedStages[(i + 1) \div 2], ev |-> "call",
                        err |-> NoError]
         ELSE /\ log[i].stage = log[i - 1].stage
              /\ log[i].ev = "return"
              /\ log[i].err # NoError => i = Len(log)
    /\ Cardinality(Active(jobs[j])) <= 1
    /\ Outcomes(trace, j) # {} =>
         /\ Active(jobs[j]) = {}
         /\ log # << >>
         /\ log[Len(log)].err # NoError \/ Len(log) = 2 * Len(ExpectedStages)

C10_Witness ==
  /\ middlewares.beforeScraping = 2
  /\ middlewares.afterScraping = 2
  /\ queue.concurrency = 2
  /\ \E j \in 1..Len(jobs) : Len(jobs[j].log) = 10 /\ Outcomes(trace, j) # {}
  /\ \E j \in 1..Len(jobs) : Active(jobs[j]) = {<<"scrape", 1>>}

\* C11: the queue stays paused and no worker is busy until run's `before`
\* series is over with success: the `before` middlewares are invoked one at
\* a time in the order of registration, and no stage of any job is invoked
\* before the last of them has called back without error, whenever the
\* feeds were pushed.
BeforeSeriesSucceeded ==
  /\ beforeSeries.called
  /\ beforeSeries.returned = middlewares.before
  /\ beforeSeries.error = NoError

C11_BeforeSeriesFirst ==
  /\ beforeSeries.invoked <= middlewares.before
  /\ beforeSeries.returned <= beforeSeries.invoked
  /\ beforeSeries.invoked <= beforeSeries.returned + 1
  /\ ~beforeSeries.called => beforeSeries.invoked = 0
  /\ ~BeforeSeriesSucceeded =>
       /\ queue.paused
       /\ queue.workers = 0
       /\ \A j \in 1..Len(jobs) : jobs[j].log = << >>
  /\ \A i \in 1..Len(trace) :
       trace[i].type \in {"job:success", "job:fail"} => BeforeSeriesSucceeded

C11_Witness ==
  /\ middlewares.before = 2
  /\ beforeSeries.invoked = 2
  /\ beforeSeries.returned = 1
  /\ Len(jobs) = 2
  /\ immediates = 0

\* C12: once scraper:teardown has been emitted no job is started: a job whose
\* first stage had not been invoked by then never has a stage invoked, feeds
\* pushed after the end of the run included.
C12_Step ==
  Emitted("scraper:teardown") =>
    \A j \in 1..Len(jobs') :
      (j > Len(jobs) \/ jobs[j].log = << >>) => jobs'[j].log = << >>

C12_NoStartAfterTeardown == [][C12_Step]_vars

\* C14: job:added is emitted when a feed is added while a run is in progress,
\* and not when a feed is added before run, whichever operation adds it.
Added(tr) == Cardinality(Idx(tr, "job:added"))
RunInProgress == beforeSeries.called /\ ~state.fulfilled

C14_Step ==
  IF AddUrl
  THEN /\ Added(trace') = Added(trace) + 1
       /\ trace'[Len(trace')].type = "job:added"
  ELSE Added(trace') = Added(trace)

C16_CallbackAfterOutcome ==
  \A c \in Idx(trace, "onComplete") :
    /\ \E o \in Idx(trace, "scraper:fail") \cup Idx(trace, "scraper:success") :
         \E e \in Idx(trace, "scraper:end") : o < e /\ e < c
    /\ \E t \in Idx(trace, "scraper:teardown") : c < t

\* C16, amended: the completion callback is invoked first, and the outcome
\* events follow it at once: onComplete(error), scraper:fail(error),
\* scraper:end("fail"), scraper:teardown on a `before` failure, and
\* onComplete(null), scraper:success, scraper:end("success"),
\* scraper:teardown on drain.
C16_CallbackFirst ==
  /\ \A c \in Idx(trace, "onComplete") :
       /\ Len(trace) >= c + 3
       /\ trace[c + 1] = IF trace[c].arg # NoError
                         THEN Ev("scraper:fail", trace[c].arg)
                         ELSE Ev("scraper:success", NoError)
       /\ trace[c + 2] = IF trace[c].arg # NoError
                         THEN Ev("scraper:end", <<"fail">>)
                         ELSE Ev("scraper:end", <<"success">>)
       /\ trace[c + 3] = Ev("scraper:teardown", NoError)
  /\ \A o \in Idx(trace, "scraper:fail") \cup Idx(trace, "scraper:success") :
       o > 1 /\ trace[o - 1].type = "onComplete"

C16_Witness ==
  /\ \E c \in Idx(trace, "onComplete") :
       trace[c].arg = NoError /\ trace[c + 1].type = "scraper:success"
  /\ Emitted("job:added")
  /\ Len(jobs) = 1

\* C17: scraper:success is never emitted while a pushed job is pending or in
\* flight: every job pushed by the time it is emitted has had its outcome.
C17_SuccessWhenAllDone ==
  [][Idx(trace', "scraper:success") # Idx(trace, "scraper:success")
       => \A j \in 1..Len(jobs') : Outcomes(trace', j) # {}]_vars

\* C17, amended: drain fires at most once, and only when no task is waiting
\* and the worker that finishes is the only busy one; scraper:success is
\* never emitted while a job pushed before drain fired is pending or in
\* flight, jobs added while another job was in flight included.  (A feed
\* pushed by the completion callback itself is pending when scraper:success
\* is emitted.)
C17_Step ==
  /\ Cardinality(Idx(trace', "scraper:success")) <= 1
  /\ Cardinality({c \in Idx(trace', "onComplete") : trace'[c].arg = NoError}) <= 1
  /\ Idx(trace', "scraper:success") # Idx(trace, "scraper:success")
       => /\ queue.tasks = << >>
          /\ queue.workers = 1
          /\ Cardinality({j \in 1..Len(jobs) : Active(jobs[j]) # {}}) = 1
          /\ \A j \in 1..Len(jobs) :
               /\ Outcomes(trace', j) # {}
               /\ Active(jobs'[j]) = {}
          /\ queue'.workers = 0

C17_DrainWhenAllDone == [][C17_Step]_vars

C17_Witness ==
  /\ Emitted("scraper:success")
  /\ \E b \in Idx(trace, "scraper:start"), a \in Idx(trace, "job:added") :
       /\ b < a
       /\ \E o \in AnyOutcome(trace) : a < o
  /\ Cardinality(AnyOutcome(trace)) = 2
  /\ queue.concurrency = 1

\* C19: no accepted feed is lost when the `before` series succeeds: a job is
\* never left without a stage invoked and out of the queue.
LostIn(js, q, j) ==
  js[j].log = << >> /\ \A i \in 1..Len(q.tasks) : q.tasks[i] # j

C19_NoFeedLost ==
  beforeSeries.error = NoError => \A j \in 1..Len(jobs) : ~LostIn(jobs, queue, j)

\* C19, amended: when the `before` series succeeds, the only feeds that are
\* dropped are those pushed by the completion callback itself; every other
\* feed stays queued until a worker takes it, has at most one outcome event,
\* and has had exactly one when the scraper has nothing left to do
\* (no deferred q.process, no stage in progress).
C19_Step ==
  /\ \A j \in 1..Len(jobs') :
       /\ Cardinality(Outcomes(trace', j)) <= 1
       /\ (beforeSeries'.error = NoError /\ LostIn(jobs', queue', j)
             /\ ~(j <= Len(jobs) /\ LostIn(jobs, queue, j)))
            => /\ j > Len(jobs)
               /\ Idx(trace', "onComplete") # Idx(trace, "onComplete")
  /\ (BeforeSeriesSucceeded' /\ immediates' = 0
        /\ \A j \in 1..Len(jobs') : Active(jobs'[j]) = {})
       => /\ queue'.tasks = << >>
          /\ \A j \in 1..Len(jobs') :
               LostIn(jobs', queue', j) \/ Cardinality(Outcomes(trace', j)) = 1

C19_OnlyCallbackFeedsLost == [][C19_Step]_vars

C19_Witness ==
  /\ Emitted("scraper:teardown")
  /\ beforeSeries.error = NoError
  /\ Len(jobs) = 2
  /\ LostIn(jobs, queue, 2)
  /\ Outcomes(trace, 1) # {}

\* ---------------------------------------------------------------------------
\* Configuration: config, timeout, script, jawascript, createJob, new Scraper
\* ---------------------------------------------------------------------------

\* extend(o, options): a new object holding the fields of options, overridden
\* by the fields of o.
extend(o, opts) ==
  [f \in DOMAIN o \cup DOMAIN opts |-> IF f \in DOMAIN o THEN o[f] ELSE opts[f]]

\* scraper.config(o) on the scraper that runs: this.options is replaced; the
\* queue built by the constructor is not touched.  Taken before run only.
Config(o) ==
  /\ ~beforeSeries.called
  /\ IF o.type # "object"
       THEN /\ result' = Call(0, "config", o, Thrown("sandcrawler.scraper.config: wrong argument."))
            /\ UNCHANGED options
       ELSE /\ options' = extend(o.value, options)
            /\ result' = Call(0, "config", o, This)
  /\ UNCHANGED <<running, scriptStack, defaults, scrapers>>

\* Arguments of config: option patches, and arguments that are no object.
Patches ==
  {Value("object", [maxConcurrency |-> k]) : k \in 1..MaxConcurrency} \cup
  {Value("object", [timeout |-> t]) : t \in Timeouts}
NoPatches == {Value("string", "fast")}

ConfigNext ==
  \/ \E o \in Patches : Config(o)
  \/ \E o \in NoPatches : Config(o)
  \/ Url
  \/ Run
  \/ Process
  \/ \E j \in 1..MaxFeeds, s \in Stages, failed \in BOOLEAN, k \in 0..1 :
       StageCallback(j, s, failed, k)

\* A scraper configured, fed and run, without middlewares.
ConfigSpec == Init /\ [][ConfigNext]_vars

\* C18: during a run the queue's worker limit is the maxConcurrency held in
\* the options when run was invoked (1 when none is configured), and no more
\* jobs than that are being fetched at once.
C18_LimitFromOptions ==
  beforeSeries.called =>
    /\ queue.concurrency = maxConcurrency
    /\ Cardinality(Fetching) <= maxConcurrency

\* ------------------------------------------------- script, createJob -----
\* phscript.fromFile, fromFunction, fromString: the script prepared from a
\* file, a function or a source string.
fromFile(path) == <<"fromFile", path>>
fromFunction(fn) == <<"fromFunction", fn>>
fromString(str) == <<"fromString", str>>

Paths == {"a.js", "b.js"}
Sources == {Value("function", "f"), Value("string", "return 1;"), Value("number", "42")}

\* Mutant: script replaces the script registered.
Script_Overwrite(path) ==
  /\ scriptStack' = fromFile(path)
  /\ result' = Call(0, "script", path, This)
  /\ UNCHANGED <<options, running, defaults, scrapers>>

\* scraper.script(path)
Script(path) ==
  /\ IF scriptStack # NoScript
       THEN /\ result' = Call(0, "script", path,
                              Thrown("sandcrawler.scraper.script: script already registered."))
            /\ UNCHANGED scriptStack
       ELSE /\ scriptStack' = fromFile(path)
            /\ result' = Call(0, "script", path, This)
  /\ UNCHANGED <<options, running, defaults, scrapers>>

\* scraper.jawascript(fn)
Jawascript(fn) ==
  /\ IF scriptStack # NoScript
       THEN /\ result' = Call(0, "jawascript", fn,
                              Thrown("sandcrawler.scraper.jawascript: script already registered."))
            /\ UNCHANGED scriptStack
       ELSE IF fn.type = "function"
       THEN /\ scriptStack' = fromFunction(fn.value)
            /\ result' = Call(0, "jawascript", fn, This)
       ELSE IF fn.type = "string"
       THEN /\ scriptStack' = fromString(fn.value)
            /\ result' = Call(0, "jawascript", fn, This)
       ELSE /\ result' = Call(0, "jawascript", fn,
                              Thrown("sandcrawler.scraper.jawascript: wrong argument."))
            /\ UNCHANGED scriptStack
  /\ UNCHANGED <<options, running, defaults, scrapers>>

\* A field of a feed object, when the caller gives it.
Field(f, given, v) == IF given THEN [x \in {f} |-> v] ELSE [x \in {} |-> v]

\* The feeds tried: strings, and objects with or without url, data, params
\* and timeout.
StringFeeds == {Value("string", u) : u \in {"", "http://a"}}
ObjectFeeds ==
  {Value("object", Field("url", u[1], u[2]) @@ Field("data", d[1], d[2]) @@
                   Field("params", p[1], p[2]) @@ Field("timeout", t[1], t[2])) :
     u \in {<<FALSE, "">>, <<TRUE, "">>, <<TRUE, "http://a">>},
     d \in {<<FALSE, {}>>, <<TRUE, {}>>, <<TRUE, {<<"page", 1>>}>>},
     p \in {<<FALSE, {}>>, <<TRUE, {<<"q", "x">>}>>},
     t \in {<<FALSE, 0>>, <<TRUE, 0>>, <<TRUE, 1000>>}}

\* createJob(feed), as url and addUrl call it on each feed before the push.
CreateJob(feed) ==
  /\ result' = Call(0, "createJob", feed, createJob(feed))
  /\ UNCHANGED <<options, running, scriptStack, defaults, scrapers>>

SetupNext ==
  \/ \E path \in Paths : Script(path)
  \/ \E fn \in Sources : Jawascript(fn)
  \/ \E feed \in StringFeeds : CreateJob(feed)
  \/ \E feed \in ObjectFeeds : CreateJob(feed)

\* A scraper being set up: scripts registered and feeds turned into jobs.
SetupSpec == Init /\ [][SetupNext]_vars

\* C13: a script is registered at most once per scraper.  A registration
\* (script or jawascript) on a scraper without script succeeds and registers
\* the script given; on a scraper with a script it throws and leaves the
\* script registered as it is; a jawascript call rejected for its argument
\* throws and registers nothing, so that a later registration still succeeds.
C13_Step ==
  result'.method \in {"script", "jawascript"} =>
    LET arg == result'.arg
        made == IF result'.method = "script" THEN fromFile(arg)
                ELSE IF arg.type = "function" THEN fromFunction(arg.value)
                ELSE IF arg.type = "string" THEN fromString(arg.value)
                ELSE NoScript
    IN  IF scriptStack # NoScript
        THEN result'.value[1] = "Error" /\ scriptStack' = scriptStack
        ELSE IF made = NoScript
        THEN result'.value[1] = "Error" /\ scriptStack' = NoScript
        ELSE result'.value = This /\ scriptStack' = made

C13_RegisterOnce == [][C13_Step]_vars

\* A script registered from a file, and a later jawascript call refused.
C13_Witness ==
  /\ scriptStack \in {fromFile(path) : path \in Paths}
  /\ result.method = "jawascript"
  /\ result.arg.type = "function"
  /\ result.value = Thrown("sandcrawler.scraper.jawascript: script already registered.")

\* C15: createJob of a string gives a job with that string as req.url and
\* empty data and params; createJob of an object with a url gives a job with
\* that url and the object's data and params, empty when the object has
\* none; in both cases req.retries is 0 and res and state are empty.
\* createJob of an object without url (none, or an empty one) throws and
\* gives no job.
C15_CreateJob ==
  result.method = "createJob" =>
    LET feed == result.arg
        out == result.value
        o == feed.value
        Expect(job, url, data, params) ==
          /\ job.req.url = url
          /\ job.req.data = data
          /\ job.req.params = params
          /\ job.req.retries = 0
          /\ job.res = {}
          /\ job.state = {}
    IN  IF feed.type = "string"
        THEN out[1] = "job" /\ Expect(out[2], o, {}, {})
        ELSE IF "url" \in DOMAIN o /\ o.url # ""
        THEN /\ out[1] = "job"
             /\ Expect(out[2], o.url,
                       IF "data" \in DOMAIN o THEN o.data ELSE {},
                       IF "params" \in DOMAIN o THEN o.params ELSE {})
        ELSE out[1] = "Error"

\* A job made from an object feed that has data and no params.
C15_Witness ==
  /\ result.method = "createJob"
  /\ result.arg.type = "object"
  /\ DOMAIN result.arg.value = {"url", "data"}
  /\ result.arg.value.data # {}
  /\ result.value[1] = "job"
  /\ result.value[2].req.data = result.arg.value.data
  /\ result.value[2].req.params = {}

\* ------------------------------------------------ options and defaults ---
\* this.options of the i-th scraper constructed: the defaults object while
\* the scraper still refers to it, else the scraper's own object.
optionsOf(all, shared, i) ==
  IF all[i][1] = "defaults" THEN shared ELSE all[i][2]

\* new Scraper(): this.options = defaults
New ==
  /\ Len(scrapers) < MaxScrapers
  /\ scrapers' = Append(scrapers, <<"defaults">>)
  /\ result' = Call(Len(scrapers) + 1, "Scraper", << >>, This)
  /\ UNCHANGED <<options, running, scriptStack, defaults>>

\* scraper.config(o) on the i-th scraper
ConfigOf(i, o) ==
  /\ i \in 1..Len(scrapers)
  /\ IF o.type # "object"
       THEN /\ result' = Call(i, "config", o, Thrown("sandcrawler.scraper.config: wrong argument."))
            /\ UNCHANGED scrapers
       ELSE /\ scrapers' = [scrapers EXCEPT ![i] =
                             <<"own", extend(o.value, optionsOf(scrapers, defaults, i))>>]
            /\ result' = Call(i, "config", o, This)
  /\ UNCHANGED <<options, running, scriptStack, defaults>>

\* scraper.timeout(t) on the i-th scraper: this.options.timeout = t, on the
\* object this.options refers to.
Timeout(i, t) ==
  /\ i \in 1..Len(scrapers)
  /\ IF t.type # "number"
       THEN /\ result' = Call(i, "timeout", t, Thrown("sandcrawler.scraper.timeout: wrong argument"))
            /\ UNCHANGED <<scrapers, defaults>>
       ELSE /\ result' = Call(i, "timeout", t, This)
            /\ IF scrapers[i][1] = "defaults"
                 THEN /\ defaults' = [defaults EXCEPT !.timeout = t.value]
                      /\ UNCHANGED scrapers
                 ELSE /\ scrapers' = [scrapers EXCEPT ![i][2].timeout = t.value]
                      /\ UNCHANGED defaults
  /\ UNCHANGED <<options, running, scriptStack>>

\* Arguments of timeout: numbers, and arguments that are no number.
Numbers == {Value("number", t) : t \in Timeouts}
NoNumbers == {Value("string", "2s")}

OptionsNext ==
  \/ New
  \/ \E i \in 1..MaxScrapers, o \in Patches : ConfigOf(i, o)
  \/ \E i \in 1..MaxScrapers, o \in NoPatches : ConfigOf(i, o)
  \/ \E i \in 1..MaxScrapers, t \in Numbers : Timeout(i, t)
  \/ \E i \in 1..MaxScrapers, t \in NoNumbers : Timeout(i, t)

\* Scrapers constructed and configured side by side.
OptionsSpec == Init /\ [][OptionsNext]_vars

\* C20: a call of timeout or config on one scraper leaves the options of
\* every other scraper, and the defaults a scraper constructed afterwards
\* starts from, as they were.
C20_Step ==
  result'.method \in {"timeout", "config"} /\ result'.self > 0 =>
    /\ defaults' = defaults
    /\ \A j \in 1..Len(scrapers) :
         j # result'.self =>
           optionsOf(scrapers', defaults', j) = optionsOf(scrapers, defaults, j)

C20_ScopedToInstance == [][C20_Step]_vars
====
